---- MODULE Spec2Model ----
(***************************************************************************)
(* Flow reconstruction (nids-suite packet_capture: FlowKey, Flow,          *)
(* FlowBuilder, PacketCapture) and the dynamic traffic graph               *)
(* (dynamic-nids-project backend: GraphManager).                           *)
(*                                                                         *)
(* Time is an integer number of seconds.  Python's None is modelled by     *)
(* None (flow references) and NoTime (timestamps).  Flow objects live in   *)
(* the heap fb.objs and are referred to by their index, which stands for   *)
(* the uuid of Flow.id; the table, the expired buffer and the export log   *)
(* hold references, as the Python containers do.                           *)
(***************************************************************************)
EXTENDS Integers, Sequences, FiniteSets, TLC

VARIABLES
    fb,        \* the FlowBuilder object (its fields, and the Flow objects it made)
    now,       \* wall clock, time.time()
    prev,      \* history: the last process_packet call on an IP packet
    ret,       \* what the last process_packet call returned (a flow or None)
    cap,       \* the PacketCapture object: running, packet_queue, stats, and
               \* (history) the packets applied to the flow table, in order
    proc,      \* the processor thread: its position and its local batch
    expo,      \* the exporter thread: its position and its local list
    stopper,   \* the thread running PacketCapture.stop(): position, local batch,
               \* and (history) whether every join so far found its thread ended
    exported,  \* log of PacketCapture._export_flow calls (flow references)
    fetched,   \* history: flows returned by get_expired_flows so far
    graph,     \* the GraphManager object: nodes and edges of the nx.Graph
    observed,  \* history: the IP packets seen on the wire by both pipelines
    pruned,    \* history: when the graph was last pruned, after how many packets
    ga,        \* the GraphAnalyzer object: centrality_history, and (history)
               \* the last call's betweenness scores and returned alerts
    server     \* the backend's event loop: which main module runs, where the
               \* analysis task is, the alerts it still has to send, and
               \* (history) what was broadcast, the cycles begun, the last
               \* cycle that was skipped, the graph the running cycle read

vars == <<fb, now, prev, ret, cap, proc, expo, stopper, exported, fetched, graph, observed, pruned, ga, server>>

(***************************************************************************)
(* Bounds of the model.                                                    *)
(***************************************************************************)
MaxTime == 3
MaxFlowTime == 2
MaxPackets == 2
MaxSweepPackets == 3
MaxTcpPackets == 5
MaxCapTime == 2
MaxCaptured == 2
MaxQueue == 1
MaxObserved == 3
MaxE2ETime == 4
MaxGraphTime == 3
MaxGraphCount == 2
MaxBc == 12
MaxPeers == 5
MaxPatternRuns == 3
MaxCycles == 2
MaxLoopTime == 3

(***************************************************************************)
(* Program constants.                                                      *)
(***************************************************************************)
FIN == 1
SYN == 2
RST == 4
PSH == 8
ACK == 16
URG == 32
ECE == 64
CWR == 128
SYNACK == 18
FINACK == 17
ExpiryCheckInterval == 1
\* _analyze_centrality_shifts: the baseline 0.1 below which a score never
\* alerts, and the factor of the spike rule (scores count in hundredths)
BetweennessFloor == 10
SpikeFactor == 5
\* run_analysis_periodically: the node count below which a cycle is skipped
AnalyzerFloor == 5
SimpleAnalyzerFloor == 3
AutoPruneInterval == 1

\* Constructor arguments of FlowBuilder (active_timeout, inactive_timeout), in
\* seconds; the defaults are 300 and 60, the model runs a builder made with
\* small values so that both rules fire within MaxTime.
active_timeout == 2
inactive_timeout == 1

\* Constructor argument of PacketCapture (the default is 1000)
batch_size == 2

None == 0
NoTime == 0 - 1

Bits == {1, 2, 4, 8, 16, 32, 64, 128}

\* flags & bit, for a single bit
HasBit(flags, bit) == (flags \div bit) % 2 = 1

\* flags & mask is non-zero (Python truthiness of the bitwise and)
AnyBit(flags, mask) == \E b \in Bits : HasBit(mask, b) /\ HasBit(flags, b)

\* flags & mask == mask
AllBits(flags, mask) == \A b \in Bits : HasBit(mask, b) => HasBit(flags, b)

(***************************************************************************)
(* FlowKey                                                                 *)
(***************************************************************************)
FlowKey(src_ip, dst_ip, src_port, dst_port, protocol) ==
    [src_ip |-> src_ip, dst_ip |-> dst_ip, src_port |-> src_port,
     dst_port |-> dst_port, protocol |-> protocol]

reversed(k) == FlowKey(k.dst_ip, k.src_ip, k.dst_port, k.src_port, k.protocol)

(***************************************************************************)
(* Flow                                                                    *)
(***************************************************************************)
NoFlags == [fin |-> 0, syn |-> 0, rst |-> 0, psh |-> 0,
            ack |-> 0, urg |-> 0, ece |-> 0, cwr |-> 0]

\* Flow.__init__.  expire_calls is a history field: how often Flow.expire ran.
NewFlow(key, bidirectional) ==
    [key |-> key, bidirectional |-> bidirectional,
     start_time |-> NoTime, last_time |-> NoTime, end_time |-> NoTime,
     bytes |-> 0, packets |-> 0,
     packet_times |-> <<>>, packet_sizes |-> <<>>, inter_arrival_times |-> <<>>,
     tcp_flags |-> NoFlags, state |-> "new", is_expired |-> FALSE,
     expire_calls |-> 0]

\* Flow._update_tcp_state: the branch is chosen by the state, then the first
\* flag test of the branch that succeeds applies.
UpdateTcpState(state, flags) ==
    CASE state = "new" ->
            IF AnyBit(flags, SYN) THEN "syn_sent"
            ELSE IF AnyBit(flags, SYNACK) THEN "syn_received"
            ELSE state
      [] state \in {"syn_sent", "syn_received"} ->
            IF AnyBit(flags, ACK) THEN "established" ELSE state
      [] state = "established" ->
            IF AnyBit(flags, FIN) THEN "closing"
            ELSE IF AnyBit(flags, RST) THEN "reset"
            ELSE state
      [] state = "closing" ->
            IF AnyBit(flags, FIN) THEN "close_wait"
            ELSE IF AnyBit(flags, RST) THEN "reset"
            ELSE state
      [] state = "close_wait" ->
            IF AnyBit(flags, ACK) THEN "closed" ELSE state
      [] OTHER -> state

Bump(flags, bit, n) == IF AnyBit(flags, bit) THEN n + 1 ELSE n

CountFlags(c, flags) ==
    [fin |-> Bump(flags, FIN, c.fin), syn |-> Bump(flags, SYN, c.syn),
     rst |-> Bump(flags, RST, c.rst), psh |-> Bump(flags, PSH, c.psh),
     ack |-> Bump(flags, ACK, c.ack), urg |-> Bump(flags, URG, c.urg),
     ece |-> Bump(flags, ECE, c.ece), cwr |-> Bump(flags, CWR, c.cwr)]

\* add_packet with the byte counter left out (self.bytes += size missing)
AddPacket_DropsLength(f, p, timestamp) ==
    IF ~p.hasIP THEN f
    ELSE [f EXCEPT
            !.start_time = IF @ = NoTime THEN timestamp ELSE @,
            !.last_time = timestamp,
            !.packets = @ + 1,
            !.tcp_flags = IF p.proto = "TCP" THEN CountFlags(@, p.flags) ELSE @,
            !.state = IF p.proto = "TCP" THEN UpdateTcpState(@, p.flags) ELSE @]

\* Flow.add_packet(packet, timestamp)
AddPacket(f, p, timestamp) ==
    IF ~p.hasIP THEN f
    ELSE
    LET f1 == [f EXCEPT
                 !.start_time = IF @ = NoTime THEN timestamp ELSE @,
                 !.inter_arrival_times =
                     IF f.last_time # NoTime THEN Append(@, timestamp - f.last_time) ELSE @,
                 !.last_time = timestamp,
                 !.packets = @ + 1,
                 !.bytes = @ + p.size,
                 !.packet_times = Append(@, timestamp),
                 !.packet_sizes = Append(@, p.size)]
    IN  IF p.proto = "TCP"
        THEN [f1 EXCEPT !.tcp_flags = CountFlags(@, p.flags),
                        !.state = UpdateTcpState(@, p.flags)]
        ELSE f1

\* is_inactive with >= in place of >
is_inactive_AtTimeout(f, current_time, timeout) ==
    IF f.last_time = NoTime THEN FALSE ELSE (current_time - f.last_time) >= timeout

\* Flow.is_inactive
is_inactive(f, current_time, timeout) ==
    IF f.last_time = NoTime THEN FALSE ELSE (current_time - f.last_time) > timeout

\* Flow.is_active_timeout
is_active_timeout(f, current_time, timeout) ==
    IF f.start_time = NoTime THEN FALSE ELSE (current_time - f.start_time) > timeout

\* Flow.expire(timestamp), always called with a timestamp by FlowBuilder
expire(f, timestamp) ==
    [f EXCEPT !.end_time = IF timestamp # NoTime THEN timestamp
                           ELSE IF f.last_time # NoTime THEN f.last_time
                           ELSE now,
              !.is_expired = TRUE,
              !.expire_calls = @ + 1]

(***************************************************************************)
(* FlowBuilder.  flows is the dict FlowKey -> Flow (a function on the keys  *)
(* present); a dict iterates in insertion order, and since a key is only    *)
(* ever inserted together with a newly made Flow, that order is the order   *)
(* of the flow references.                                                  *)
(***************************************************************************)
EmptyTable == [k \in {} |-> None]

Put(m, k, v) == [x \in (DOMAIN m) \cup {k} |-> IF x = k THEN v ELSE m[x]]

Drop(m, K) == [x \in (DOMAIN m) \ K |-> m[x]]

Values(m) == {m[k] : k \in DOMAIN m}

Min(S) == CHOOSE x \in S : \A y \in S : x <= y

RECURSIVE InOrder(_)
InOrder(S) == IF S = {} THEN <<>> ELSE <<Min(S)>> \o InOrder(S \ {Min(S)})

Range(s) == {s[i] : i \in DOMAIN s}

\* FlowBuilder.__init__, PacketCapture makes it with bidirectional=True
NewFlowBuilder(t) ==
    [flows |-> EmptyTable, objs |-> <<>>, bidirectional |-> TRUE,
     expired_flows |-> <<>>, last_expiry_check |-> t,
     packets_processed |-> 0, flows_created |-> 0, flows_expired |-> 0]

\* the flows a sweep at current_time expires (either timeout rule)
\* the test of _expire_flows with `and` in place of `or`
TimedOut_BothRules(b, current_time) ==
    {i \in Values(b.flows) :
        /\ is_active_timeout(b.objs[i], current_time, active_timeout)
        /\ is_inactive(b.objs[i], current_time, inactive_timeout)}

TimedOut(b, current_time) ==
    {i \in Values(b.flows) :
        \/ is_active_timeout(b.objs[i], current_time, active_timeout)
        \/ is_inactive(b.objs[i], current_time, inactive_timeout)}

\* _expire_flows without the loop that pops keys_to_remove
ExpireFlows_KeepsKeys(b, current_time) ==
    LET X == TimedOut(b, current_time)
    IN  [b EXCEPT
           !.objs = [i \in DOMAIN b.objs |->
                        IF i \in X THEN expire(b.objs[i], current_time) ELSE b.objs[i]],
           !.expired_flows = @ \o InOrder(X),
           !.flows_expired = @ + Cardinality(X)]

\* FlowBuilder._expire_flows(current_time)
ExpireFlows(b, current_time) ==
    LET X == TimedOut(b, current_time)
        keys_to_remove == {k \in DOMAIN b.flows : b.flows[k] \in X}
    IN  [b EXCEPT
           !.objs = [i \in DOMAIN b.objs |->
                        IF i \in X THEN expire(b.objs[i], current_time) ELSE b.objs[i]],
           !.flows = Drop(@, keys_to_remove),
           !.expired_flows = @ \o InOrder(X),
           !.flows_expired = @ + Cardinality(X)]

\* expired_flow = self.flows.pop(flow_key); expired_flow.expire(timestamp);
\* self.expired_flows.append(expired_flow); self.flows_expired += 1
PopExpire(b, flow_key, timestamp) ==
    LET i == b.flows[flow_key]
    IN  [b EXCEPT !.objs[i] = expire(@, timestamp),
                  !.flows = Drop(@, {flow_key}),
                  !.expired_flows = Append(@, i),
                  !.flows_expired = @ + 1]

\* the key process_packet computes from the headers
KeyOf(p) ==
    IF p.proto \in {"TCP", "UDP"}
    THEN FlowKey(p.src, p.dst, p.sport, p.dport, p.proto)
    ELSE FlowKey(p.src, p.dst, 0, 0, p.proto)

\* the lookup without the branch for the reversed key
Lookup_ForwardOnly(b, flow_key) ==
    IF flow_key \in DOMAIN b.flows THEN b.flows[flow_key] ELSE None

\* the flow process_packet adds the packet to: the one under the forward key,
\* else (bidirectional) the one under the reversed key, else None (a new one)
Lookup(b, flow_key) ==
    IF flow_key \in DOMAIN b.flows THEN b.flows[flow_key]
    ELSE IF b.bidirectional /\ reversed(flow_key) \in DOMAIN b.flows
         THEN b.flows[reversed(flow_key)]
    ELSE None

\* lines 420-436: add the packet to its flow, creating the flow when needed
Route(b, p) ==
    LET flow_key == KeyOf(p)
        found == Lookup(b, flow_key)
    IN  IF found # None
        THEN [b EXCEPT !.packets_processed = @ + 1,
                       !.objs[found] = AddPacket(@, p, p.time)]
        ELSE [b EXCEPT !.packets_processed = @ + 1,
                       !.objs = Append(@, AddPacket(NewFlow(flow_key, b.bidirectional), p, p.time)),
                       !.flows = Put(@, flow_key, Len(b.objs) + 1),
                       !.flows_created = @ + 1]

\* lines 438-442: the sweep, at most once per second
Sweep(b, current_time) ==
    IF current_time - b.last_expiry_check > ExpiryCheckInterval
    THEN [ExpireFlows(b, current_time) EXCEPT !.last_expiry_check = current_time]
    ELSE b

\* lines 444-464: which flow, if any, this packet terminates.  flow is the
\* flow the packet was added to.
Terminates(b, p, flow) ==
    IF p.proto # "TCP" THEN FALSE
    ELSE IF AnyBit(p.flags, RST) THEN KeyOf(p) \in DOMAIN b.flows
    ELSE IF AllBits(p.flags, FINACK)
         THEN b.objs[flow].state = "closed" /\ KeyOf(p) \in DOMAIN b.flows
    ELSE FALSE

\* FlowBuilder.process_packet(packet) at wall time current_time: the builder
\* after the call, the value returned, and (history) the flow the packet was
\* added to and whether the sweep ran.
ProcessPacket(b, p, current_time) ==
    IF ~p.hasIP
    THEN [fb |-> b, ret |-> None, flow |-> None, swept |-> FALSE]
    ELSE
    LET found == Lookup(b, KeyOf(p))
        flow == IF found # None THEN found ELSE Len(b.objs) + 1
        b1 == Route(b, p)
        b2 == Sweep(b1, current_time)
        swept == current_time - b1.last_expiry_check > ExpiryCheckInterval
    IN  IF Terminates(b2, p, flow)
        THEN [fb |-> PopExpire(b2, KeyOf(p), p.time),
              ret |-> b2.flows[KeyOf(p)], flow |-> flow, swept |-> swept]
        ELSE [fb |-> b2, ret |-> None, flow |-> flow, swept |-> swept]

\* FlowBuilder.expire_all_flows() at wall time current_time
ExpireAllFlows(b, current_time) ==
    LET all_flows == InOrder(Values(b.flows))
    IN  [b EXCEPT
           !.objs = [i \in DOMAIN b.objs |->
                        IF i \in Values(b.flows) THEN expire(b.objs[i], current_time)
                        ELSE b.objs[i]],
           !.expired_flows = @ \o all_flows,
           !.flows = EmptyTable]

(***************************************************************************)
(* Packets.  A packet is what scapy hands over: whether it has an IP layer, *)
(* the addresses, the transport layer (TCP, UDP, ICMP, or the IP protocol   *)
(* number as a string), the ports, the TCP flags, len(packet) and           *)
(* packet.time.                                                             *)
(***************************************************************************)
Packet(src, dst, proto, sport, dport, flags, size, time) ==
    [hasIP |-> TRUE, src |-> src, dst |-> dst, proto |-> proto, sport |-> sport,
     dport |-> dport, flags |-> flags, size |-> size, time |-> time]

\* an ARP frame: no IP layer
NonIP(time) ==
    [hasIP |-> FALSE, src |-> "", dst |-> "", proto |-> "ARP", sport |-> 0,
     dport |-> 0, flags |-> 0, size |-> 42, time |-> time]

TcpFlagSets == {SYN, SYNACK, ACK, FIN, FINACK, RST}

\* a SYN carries options (60 bytes), the other segments are bare headers
TcpSize(flags) == IF AnyBit(flags, SYN) THEN 60 ELSE 40

\* the conversation A:1234 <-> B:80
TcpPackets(time) ==
    {Packet("A", "B", "TCP", 1234, 80, fl, TcpSize(fl), time) : fl \in TcpFlagSets}
    \cup {Packet("B", "A", "TCP", 80, 1234, fl, TcpSize(fl), time) : fl \in TcpFlagSets}

\* the packets that open or reset that conversation, one UDP datagram
\* A:5353 -> B:53, and the ARP frame
OpenFlagSets == {SYN, ACK, RST}

Packets(time) ==
    {p \in TcpPackets(time) : p.flags \in OpenFlagSets}
    \cup {Packet("A", "B", "UDP", 5353, 53, 0, 100, time), NonIP(time)}

(***************************************************************************)
(* GraphManager (dynamic-nids-project backend): an undirected nx.Graph.  An *)
(* edge is keyed by the set of its two end points.                          *)
(***************************************************************************)
ttl == 2

\* GraphManager.__init__
NewGraphManager == [nodes |-> EmptyTable, edges |-> EmptyTable]

\* PacketProcessor.process_packet: the feature vector of an IP packet
FeatureVector(p) ==
    [timestamp |-> p.time, src_addr |-> p.src, dst_addr |-> p.dst,
     protocol |-> p.proto, src_port |-> p.sport, dst_port |-> p.dport,
     packet_length |-> p.size, tcp_flags |-> p.flags]

\* the node loop of update_graph, for one node
TouchNode(nodes, node_ip, current_time) ==
    IF node_ip \in DOMAIN nodes
    THEN [nodes EXCEPT ![node_ip].last_seen = current_time,
                       ![node_ip].packet_count = @ + 1]
    ELSE Put(nodes, node_ip, [last_seen |-> current_time, packet_count |-> 1,
                              first_seen |-> current_time])

\* update_graph with an edge that is refreshed but whose weight stays put
UpdateGraph_KeepsWeight(g, feature_vector) ==
    LET src_ip == feature_vector.src_addr
        dst_ip == feature_vector.dst_addr
        current_time == feature_vector.timestamp
        e == {src_ip, dst_ip}
    IN  [nodes |-> TouchNode(TouchNode(g.nodes, src_ip, current_time),
                             dst_ip, current_time),
         edges |-> IF e \in DOMAIN g.edges
                   THEN [g.edges EXCEPT ![e].last_seen = current_time]
                   ELSE Put(g.edges, e, [weight |-> 1, last_seen |-> current_time])]

\* GraphManager.update_graph
UpdateGraph(g, feature_vector) ==
    LET src_ip == feature_vector.src_addr
        dst_ip == feature_vector.dst_addr
        current_time == feature_vector.timestamp
        e == {src_ip, dst_ip}
    IN  [nodes |-> TouchNode(TouchNode(g.nodes, src_ip, current_time),
                             dst_ip, current_time),
         edges |-> IF e \in DOMAIN g.edges
                   THEN [g.edges EXCEPT ![e].weight = @ + 1,
                                        ![e].last_seen = current_time]
                   ELSE Put(g.edges, e, [weight |-> 1, last_seen |-> current_time])]

\* graph.degree(node) == 0
Isolated(edges, node) == \A e \in DOMAIN edges : node \notin e

\* one round of prune_graph_periodically at current_time: old edges go
\* first, then the old nodes that are isolated by then
PruneGraph(g, current_time) ==
    LET old_edges == {e \in DOMAIN g.edges :
                        current_time - g.edges[e].last_seen > ttl}
        edges == Drop(g.edges, old_edges)
        old_nodes == {n \in DOMAIN g.nodes :
                        /\ current_time - g.nodes[n].last_seen > ttl
                        /\ Isolated(edges, n)}
    IN  [nodes |-> Drop(g.nodes, old_nodes), edges |-> edges]

(***************************************************************************)
(* GraphAnalyzer: the centrality-shift strategy.  Betweenness scores are    *)
(* counted in hundredths.                                                   *)
(***************************************************************************)
\* GraphAnalyzer.__init__
NewGraphAnalyzer ==
    [centrality_history |-> EmptyTable, betweenness |-> EmptyTable, alerts |-> {}]

\* the spike rule without its test of the previous value
Spikes_NoHistoryTest(prev_bc, curr_bc) ==
    /\ curr_bc > BetweennessFloor
    /\ curr_bc > prev_bc * SpikeFactor

\* the rule of line 64
Spikes(prev_bc, curr_bc) ==
    /\ curr_bc > BetweennessFloor
    /\ curr_bc > prev_bc * SpikeFactor
    /\ prev_bc > 0

\* centrality_history.get(node, {}).get('betweenness', 0)
PrevBc(centrality_history, node) ==
    IF node \in DOMAIN centrality_history THEN centrality_history[node] ELSE 0

CentralityShift(node, prev_bc, curr_bc) ==
    [type |-> "CentralityShift", node |-> node, metric |-> "Betweenness",
     old_value |-> prev_bc, new_value |-> curr_bc]

\* GraphAnalyzer._analyze_centrality_shifts on a graph whose nodes score
\* betweenness_centrality: every node of the graph is compared with its
\* history and then written to it (the degree entry, written beside it and
\* never read, is left out).  The iterations touch one node each, so their
\* order does not show.
analyze_centrality_shifts(a, betweenness_centrality) ==
    LET nodes == DOMAIN betweenness_centrality
        alerts == {CentralityShift(node, PrevBc(a.centrality_history, node),
                                   betweenness_centrality[node]) :
                     node \in {n \in nodes :
                                 Spikes(PrevBc(a.centrality_history, n),
                                        betweenness_centrality[n])}}
        history == [n \in DOMAIN a.centrality_history \cup nodes |->
                      IF n \in nodes THEN betweenness_centrality[n]
                      ELSE a.centrality_history[n]]
    IN  [centrality_history |-> history,
         betweenness |-> betweenness_centrality, alerts |-> alerts]

(***************************************************************************)
(* SimpleGraphAnalyzer: the pattern strategy on graph_data, a record of     *)
(* the node ids and of the links [source, target, weight].  Averages are    *)
(* compared by cross-multiplying.  An alert is kept as its type and the     *)
(* nodes it names.                                                          *)
(***************************************************************************)
\* SimpleGraphAnalyzer.__init__ (analysis_count is never used); graph_data
\* and alerts are history: the last call's argument and result
NewSimpleGraphAnalyzer ==
    [node_history |-> EmptyTable, graph_data |-> [nodes |-> {}, links |-> {}],
     alerts |-> {}]

RECURSIVE SumWeights(_)
SumWeights(links) ==
    IF links = {} THEN 0
    ELSE LET l == CHOOSE x \in links : TRUE
         IN  l.weight + SumWeights(links \ {l})

RECURSIVE SumSeq(_)
SumSeq(s) == IF s = <<>> THEN 0 ELSE Head(s) + SumSeq(Tail(s))

\* adjacency[node]
Adjacency(links, node) ==
    {l.target : l \in {x \in links : x.source = node}}
    \cup {l.source : l \in {x \in links : x.target = node}}

\* node_degrees[node]: the weights of the links at the node
NodeDegree(links, node) ==
    SumWeights({l \in links : l.source = node})
    + SumWeights({l \in links : l.target = node})

\* the keys of node_degrees
Linked(links) == {l.source : l \in links} \cup {l.target : l \in links}

\* _is_sudden_increase: the history of the node after the call (the last 5
\* degrees, time stamps left out) and the answer
is_sudden_increase(node_history, node_id, current_degree) ==
    LET all == Append(IF node_id \in DOMAIN node_history
                      THEN node_history[node_id] ELSE <<>>, current_degree)
        history == IF Len(all) > 5 THEN SubSeq(all, Len(all) - 4, Len(all)) ELSE all
        prev_degrees == SubSeq(history, 1, Len(history) - 1)
    IN  [history |-> history,
         sudden |-> /\ Len(history) >= 3
                    /\ current_degree * Len(prev_degrees) > SumSeq(prev_degrees) * 2
                    /\ current_degree > 5]

\* the nodes that pass `degree > high_threshold and degree > 5`
HighDegree(links) ==
    {n \in Linked(links) :
        /\ NodeDegree(links, n) * Cardinality(Linked(links))
              > SumWeights(links) * 2 * 3
        /\ NodeDegree(links, n) > 5}

\* _find_isolated_pairs
find_isolated_pairs(links, nodes) ==
    LET Single(n) == Cardinality(Adjacency(links, n)) = 1
    IN  UNION {{{n, m} : m \in {x \in Adjacency(links, n) : Single(x)}} :
                 n \in {x \in nodes : Single(x)}}

\* _detect_scanning_behavior: 4 or more links, of average weight at most 2
detect_scanning_behavior(links) ==
    {n \in Linked(links) :
        LET count == Cardinality({l \in links : l.source = n})
                     + Cardinality({l \in links : l.target = n})
        IN  /\ count >= 4
            /\ NodeDegree(links, n) <= 2 * count}

\* _find_bridge_nodes: fewer than 0.3 of the pairs of neighbours are linked
find_bridge_nodes(links) ==
    {n \in Linked(links) :
        LET neighbors == Adjacency(links, n)
            pairs == {p \in SUBSET neighbors : Cardinality(p) = 2}
            neighbor_connections ==
                Cardinality({p \in pairs :
                               \E a \in p : (p \ {a}) \subseteq Adjacency(links, a)})
        IN  /\ Cardinality(neighbors) >= 2
            /\ neighbor_connections * 10 < Cardinality(pairs) * 3}

Alert(type, nodes) == [type |-> type, nodes |-> nodes]

\* SimpleGraphAnalyzer._analyze_network_patterns(graph_data)
analyze_network_patterns(a, graph_data) ==
    LET links == graph_data.links
        checked == [n \in HighDegree(links) |->
                       is_sudden_increase(a.node_history, n, NodeDegree(links, n))]
        node_history ==
            [n \in DOMAIN a.node_history \cup DOMAIN checked |->
                IF n \in DOMAIN checked THEN checked[n].history
                ELSE a.node_history[n]]
    IN  [node_history |-> node_history,
         graph_data |-> graph_data,
         alerts |->
            {Alert("HighDegreeNode", {n}) : n \in {x \in DOMAIN checked : checked[x].sudden}}
            \cup {Alert("IsolatedCommunication", pair) :
                    pair \in find_isolated_pairs(links, graph_data.nodes)}
            \cup {Alert("PotentialScan", {n}) : n \in detect_scanning_behavior(links)}
            \cup {Alert("BridgeNode", {n}) :
                    n \in {x \in find_bridge_nodes(links) : NodeDegree(links, x) > 3}}]

(***************************************************************************)
(* The server process (main.py or main_robust.py): one asyncio event loop   *)
(* runs the sniffer's per-packet tasks, the prune task and the analysis     *)
(* task.  A task runs until it awaits something that is not ready.          *)
(***************************************************************************)
\* the module-level objects of main.py / main_robust.py at start-up: the
\* analysis task sleeps, no alert is waiting, nothing was broadcast
NewServer(app) ==
    [app |-> app, detector |-> TRUE, pc |-> "sleeping", pending |-> <<>>,
     sent |-> <<>>, cycles |-> 0, skipped |-> 0, view |-> <<>>,
     verdict |-> "absent"]

\* ConnectionManager.broadcast of main.py: the message goes out unless a
\* send_text raises
broadcast(sent, message, delivered) ==
    IF delivered THEN Append(sent, message) ELSE sent

\* ml_results after the try block of the pipeline.  The predictor is absent
\* (None), answers "benign" or "anomaly", or raises: main.py then sets
\* ml_results = None, main_robust.py an error_fallback verdict.
MlResults(app, outcome) ==
    CASE outcome = "absent" -> [given |-> FALSE, is_anomaly |-> FALSE]
      [] outcome = "raises" ->
            IF app = "main" THEN [given |-> FALSE, is_anomaly |-> FALSE]
            ELSE [given |-> TRUE, is_anomaly |-> FALSE]
      [] OTHER -> [given |-> TRUE, is_anomaly |-> (outcome = "anomaly")]

\* the pipeline with no except clause around the predictor: a failure of
\* the predictor ends the call
analysis_pipeline_NoCatch(app, g, sent, feature_vector, outcome, delivered) ==
    LET ml_results == MlResults(app, outcome)
    IN  IF outcome = "raises" THEN [graph |-> g, sent |-> sent]
        ELSE [graph |-> UpdateGraph(g, feature_vector),
              sent |-> IF ml_results.given /\ ml_results.is_anomaly
                       THEN broadcast(sent, Alert("ML_Anomaly",
                                {feature_vector.src_addr, feature_vector.dst_addr}),
                                delivered)
                       ELSE sent]

\* analysis_pipeline (main.py) / robust_analysis_pipeline (main_robust.py) on
\* one feature vector: the graph and the broadcast log after the call
analysis_pipeline(app, g, sent, feature_vector, outcome, delivered) ==
    LET ml_results == MlResults(app, outcome)
    IN  [graph |-> UpdateGraph(g, feature_vector),
         sent |-> IF ml_results.given /\ ml_results.is_anomaly
                  THEN broadcast(sent, Alert("ML_Anomaly",
                           {feature_vector.src_addr, feature_vector.dst_addr}),
                           delivered)
                  ELSE sent]

(***************************************************************************)
(* Initial state: the objects as constructed, nothing started.              *)
(***************************************************************************)
NoCall == [key |-> FlowKey("", "", 0, 0, ""), flow |-> None, size |-> 0,
           packets_before |-> 0, bytes_before |-> 0]

InitCore ==
    /\ now = 0
    /\ fb = NewFlowBuilder(0)
    /\ prev = NoCall
    /\ ret = None
    /\ cap = [running |-> FALSE, sniffing |-> FALSE, packet_queue |-> <<>>,
              packets_captured |-> 0, applied |-> <<>>]
    /\ proc = [pc |-> "idle", batch |-> <<>>]
    /\ expo = [pc |-> "idle", flows |-> <<>>]
    /\ stopper = [pc |-> "idle", batch |-> <<>>, joined |-> TRUE]
    /\ exported = <<>>
    /\ fetched = <<>>
    /\ observed = <<>>
    /\ pruned = [at |-> NoTime, after |-> 0]

\* everything but the graph manager
InitRest ==
    /\ InitCore
    /\ ga = NewGraphAnalyzer
    /\ server = NewServer("main")

Init ==
    /\ InitRest
    /\ graph = NewGraphManager

\* history of one process_packet call on an IP packet: its key and length, the
\* flow it was added to and that flow's counters before the call
CallRecord(b, p, r) ==
    LET found == Lookup(b, KeyOf(p))
    IN  [key |-> KeyOf(p), flow |-> r.flow, size |-> p.size,
         packets_before |-> IF found = None THEN 0 ELSE b.objs[found].packets,
         bytes_before |-> IF found = None THEN 0 ELSE b.objs[found].bytes]

(***************************************************************************)
(* The FlowBuilder driven call by call (one caller).                        *)
(***************************************************************************)
CaptureIdle == UNCHANGED <<cap, proc, expo, stopper, exported, fetched, graph, observed, pruned, ga, server>>

Call(p, limit) ==
    /\ fb.packets_processed < limit
    /\ LET r == ProcessPacket(fb, p, now)
       IN  /\ fb' = r.fb
           /\ ret' = r.ret
           /\ prev' = IF p.hasIP THEN CallRecord(fb, p, r) ELSE prev
    /\ UNCHANGED now
    /\ CaptureIdle

FB_ProcessPacket(p) == Call(p, MaxPackets)

FB_ExpireFlows ==
    /\ fb' = ExpireFlows(fb, now)
    /\ UNCHANGED <<now, prev, ret>>
    /\ CaptureIdle

FB_GetExpiredFlows ==
    /\ fb' = [fb EXCEPT !.expired_flows = <<>>]
    /\ UNCHANGED <<now, prev, ret>>
    /\ CaptureIdle

FB_ExpireAllFlows ==
    /\ fb' = ExpireAllFlows(fb, now)
    /\ UNCHANGED <<now, prev, ret>>
    /\ CaptureIdle

\* a second passes
Pass(limit) ==
    /\ now < limit
    /\ now' = now + 1
    /\ UNCHANGED <<fb, prev, ret, cap, proc, expo, stopper, exported, fetched, graph, observed, pruned, ga, server>>

FB_Tick == Pass(MaxFlowTime)

NextFlow ==
    \/ \E p \in Packets(now) : FB_ProcessPacket(p)
    \/ FB_ExpireFlows
    \/ FB_GetExpiredFlows
    \/ FB_ExpireAllFlows
    \/ FB_Tick

SpecFlow == Init /\ [][NextFlow]_vars

(***************************************************************************)
(* The timeout sweep: packets, the passing of time and _expire_flows.       *)
(***************************************************************************)
SW_ProcessPacket(p) == Call(p, MaxSweepPackets)

SW_ExpireFlows == FB_ExpireFlows

SW_Tick == Pass(MaxTime)

\* the packets of the three-way handshake, and the UDP datagram
SweepPackets(time) ==
    {p \in TcpPackets(time) : p.flags \in {SYN, SYNACK, ACK}}
    \cup {Packet("A", "B", "UDP", 5353, 53, 0, 100, time)}

NextSweep ==
    \/ \E p \in SweepPackets(now) : SW_ProcessPacket(p)
    \/ SW_ExpireFlows
    \/ SW_Tick

SpecSweep == Init /\ [][NextSweep]_vars

(***************************************************************************)
(* End to end: each IP packet on the wire is seen by the flow pipeline      *)
(* (FlowBuilder.process_packet) and by the graph pipeline                   *)
(* (PacketProcessor.process_packet, analysis_pipeline, update_graph); the   *)
(* graph is pruned by its periodic task.                                    *)
(***************************************************************************)
\* the handshake packets of A:1234 <-> B:80 and a datagram from A to a third
\* host
E2EPackets(time) ==
    { Packet("A", "B", "TCP", 1234, 80, SYN, 60, time),
      Packet("B", "A", "TCP", 80, 1234, SYNACK, 60, time),
      Packet("A", "B", "TCP", 1234, 80, ACK, 40, time),
      Packet("A", "C", "UDP", 5353, 53, 0, 100, time) }

E2E_Packet(p) ==
    /\ Len(observed) < MaxObserved
    /\ LET r == ProcessPacket(fb, p, now)
       IN  /\ fb' = r.fb
           /\ ret' = r.ret
           /\ prev' = CallRecord(fb, p, r)
    /\ graph' = UpdateGraph(graph, FeatureVector(p))
    /\ observed' = Append(observed, p)
    /\ UNCHANGED <<now, cap, proc, expo, stopper, exported, fetched, pruned, ga, server>>

GM_Prune ==
    /\ graph' = PruneGraph(graph, now)
    /\ pruned' = [at |-> now, after |-> Len(observed)]
    /\ UNCHANGED <<fb, now, prev, ret, cap, proc, expo, stopper, exported,
                   fetched, observed, ga, server>>

E2E_Tick == Pass(MaxE2ETime)

NextE2E ==
    \/ \E p \in E2EPackets(now) : E2E_Packet(p)
    \/ GM_Prune
    \/ E2E_Tick

SpecE2E == Init /\ [][NextE2E]_vars

(***************************************************************************)
(* One TCP conversation, packet after packet, long enough for a complete    *)
(* open and close; no time passes.                                          *)
(***************************************************************************)
TCP_ProcessPacket(p) == Call(p, MaxTcpPackets)

NextTcp == \E p \in TcpPackets(now) : TCP_ProcessPacket(p)

SpecTcp == Init /\ [][NextTcp]_vars

(***************************************************************************)
(* PacketCapture: the sniffer's callback, the processor thread               *)
(* (_processor_loop), the exporter thread (_export_flows_periodically) and   *)
(* the thread that calls stop().  A thread's pc is the statement it is at;   *)
(* one step is one call that the interpreter runs without giving up the      *)
(* lock (a queue operation, a list copy, a list clear) or one call into the  *)
(* flow builder.                                                             *)
(***************************************************************************)
\* what the sniffer delivers: SYN, RST and a UDP datagram from A, RST from B
CapPackets(time) ==
    {p \in TcpPackets(time) : p.flags = RST \/ (p.flags = SYN /\ p.src = "A")}
    \cup {Packet("A", "B", "UDP", 5353, 53, 0, 100, time)}

CaptureFrame == UNCHANGED <<prev, graph, observed, pruned, ga, server>>

\* PacketCapture.start()
PC_Start ==
    /\ ~cap.running
    /\ stopper.pc = "idle"
    /\ proc.pc = "idle"
    /\ cap' = [cap EXCEPT !.running = TRUE, !.sniffing = TRUE]
    /\ proc' = [proc EXCEPT !.pc = "loop"]
    /\ expo' = [expo EXCEPT !.pc = "loop"]
    /\ UNCHANGED <<fb, now, ret, stopper, exported, fetched>>
    /\ CaptureFrame

\* the packet object: the packet with its identity, its number in capture
\* order
Tag(p, n) == [f \in DOMAIN p \cup {"seq"} |-> IF f = "seq" THEN n ELSE p[f]]

\* PacketCapture._packet_callback(packet), called by scapy.sniff
Deliver(p, limit) ==
    /\ cap.sniffing
    /\ cap.packets_captured < limit
    /\ cap' = [cap EXCEPT
                 !.packets_captured = @ + 1,
                 !.packet_queue =
                     IF Len(@) < MaxQueue
                     THEN Append(@, Tag(p, cap.packets_captured + 1))
                     ELSE @]
    /\ UNCHANGED <<fb, now, ret, proc, expo, stopper, exported, fetched>>
    /\ CaptureFrame

PC_PacketCallback(p) == Deliver(p, MaxCaptured)

\* _processor_loop: while self.running
PR_Loop ==
    /\ proc.pc = "loop"
    /\ proc' = IF cap.running THEN [pc |-> "get", batch |-> <<>>]
               ELSE [pc |-> "done", batch |-> <<>>]
    /\ UNCHANGED <<fb, now, ret, cap, expo, stopper, exported, fetched>>
    /\ CaptureFrame

\* _process_packet_batch, lines 164-172: one queue.get, or leaving the loop
\* (batch full, or queue.Empty after the 0.1 s timeout)
BatchGet(t, next_empty) ==
    IF Len(t.batch) < batch_size /\ cap.packet_queue # <<>>
    THEN /\ t' = [t EXCEPT !.batch = Append(@, Head(cap.packet_queue))]
         /\ cap' = [cap EXCEPT !.packet_queue = Tail(@)]
    ELSE /\ t' = [t EXCEPT !.pc = IF t.batch = <<>> THEN next_empty ELSE "process"]
         /\ cap' = cap

\* _process_packet_batch, lines 176-182: one packet of the batch
BatchProcess(t, next_done) ==
    LET r == ProcessPacket(fb, Head(t.batch), now)
    IN  /\ fb' = r.fb
        /\ ret' = r.ret
        /\ exported' = IF r.ret # None /\ r.fb.objs[r.ret].is_expired
                       THEN Append(exported, r.ret) ELSE exported
        /\ t' = [t EXCEPT !.batch = Tail(@),
                          !.pc = IF Tail(t.batch) = <<>> THEN next_done ELSE "process"]
        /\ cap' = [cap EXCEPT !.applied = Append(@, Head(t.batch))]

PR_Get ==
    /\ proc.pc = "get"
    /\ BatchGet(proc, "loop")
    /\ UNCHANGED <<fb, now, ret, expo, stopper, exported, fetched>>
    /\ CaptureFrame

PR_Process ==
    /\ proc.pc = "process"
    /\ BatchProcess(proc, "loop")
    /\ UNCHANGED <<now, expo, stopper, fetched>>
    /\ CaptureFrame

\* _export_flows_periodically: while self.running: time.sleep(export_interval)
EX_Loop ==
    /\ expo.pc = "loop"
    /\ expo' = [expo EXCEPT !.pc = IF cap.running THEN "copy" ELSE "done"]
    /\ UNCHANGED <<fb, now, ret, cap, proc, stopper, exported, fetched>>
    /\ CaptureFrame

\* get_expired_flows: expired = self.expired_flows.copy()
EX_Copy ==
    /\ expo.pc = "copy"
    /\ expo' = [pc |-> "clear", flows |-> fb.expired_flows]
    /\ UNCHANGED <<fb, now, ret, cap, proc, stopper, exported, fetched>>
    /\ CaptureFrame

\* get_expired_flows: self.expired_flows.clear(); return expired
EX_Clear ==
    /\ expo.pc = "clear"
    /\ fb' = [fb EXCEPT !.expired_flows = <<>>]
    /\ fetched' = fetched \o expo.flows
    /\ expo' = [expo EXCEPT !.pc = "export"]
    /\ UNCHANGED <<now, ret, cap, proc, stopper, exported>>
    /\ CaptureFrame

\* for flow in flows: self._export_flow(flow, features)
EX_Export ==
    /\ expo.pc = "export"
    /\ exported' = exported \o expo.flows
    /\ expo' = [pc |-> "loop", flows |-> <<>>]
    /\ UNCHANGED <<fb, now, ret, cap, proc, stopper, fetched>>
    /\ CaptureFrame

\* PacketCapture.stop(), lines 306-311
ST_Begin ==
    /\ stopper.pc = "idle"
    /\ cap.running
    /\ cap' = [cap EXCEPT !.running = FALSE]
    /\ stopper' = [stopper EXCEPT !.pc = "join_processor"]
    /\ UNCHANGED <<fb, now, ret, proc, expo, exported, fetched>>
    /\ CaptureFrame

\* processor_thread.join(timeout=5.0): returns when the thread has ended, or
\* after 5 seconds whether it has or not
ST_JoinProcessor ==
    /\ stopper.pc = "join_processor"
    /\ stopper' = [stopper EXCEPT !.pc = "join_exporter",
                                  !.joined = @ /\ proc.pc = "done"]
    /\ UNCHANGED <<fb, now, ret, cap, proc, expo, exported, fetched>>
    /\ CaptureFrame

\* exporter_thread.join(timeout=5.0)
ST_JoinExporter ==
    /\ stopper.pc = "join_exporter"
    /\ stopper' = [stopper EXCEPT !.pc = "drain",
                                  !.joined = @ /\ expo.pc = "done"]
    /\ UNCHANGED <<fb, now, ret, cap, proc, expo, exported, fetched>>
    /\ CaptureFrame

\* while not self.packet_queue.empty(): self._process_packet_batch()
ST_Drain ==
    /\ stopper.pc = "drain"
    /\ stopper' = [stopper EXCEPT
                     !.pc = IF cap.packet_queue # <<>> THEN "get" ELSE "expire_all"]
    /\ UNCHANGED <<fb, now, ret, cap, proc, expo, exported, fetched>>
    /\ CaptureFrame

ST_Get ==
    /\ stopper.pc = "get"
    /\ BatchGet(stopper, "drain")
    /\ UNCHANGED <<fb, now, ret, proc, expo, exported, fetched>>
    /\ CaptureFrame

ST_Process ==
    /\ stopper.pc = "process"
    /\ BatchProcess(stopper, "drain")
    /\ UNCHANGED <<now, proc, expo, fetched>>
    /\ CaptureFrame

\* remaining_flows = self.flow_builder.expire_all_flows(); each is exported
ST_ExpireAll ==
    /\ stopper.pc = "expire_all"
    /\ fb' = ExpireAllFlows(fb, now)
    /\ exported' = exported \o InOrder(Values(fb.flows))
    /\ stopper' = [stopper EXCEPT !.pc = "done"]
    /\ UNCHANGED <<now, ret, cap, proc, expo, fetched>>
    /\ CaptureFrame

PC_Tick == Pass(MaxCapTime)

Processor == PR_Loop \/ PR_Get \/ PR_Process

Exporter == EX_Loop \/ EX_Copy \/ EX_Clear \/ EX_Export

Stopper ==
    \/ ST_Begin
    \/ ST_JoinProcessor
    \/ ST_JoinExporter
    \/ ST_Drain
    \/ ST_Get
    \/ ST_Process
    \/ ST_ExpireAll

NextCapture ==
    \/ PC_Start
    \/ \E p \in CapPackets(now) : PC_PacketCallback(p)
    \/ Processor
    \/ Exporter
    \/ Stopper
    \/ PC_Tick

SpecCapture == Init /\ [][NextCapture]_vars

(***************************************************************************)
(* A quiet capture: the sniffer delivers one packet and then nothing.  The  *)
(* threads keep running, the clock keeps going, and a stop() that has begun *)
(* runs to its end; stop() may never be called.                             *)
(***************************************************************************)
QT_PacketCallback(p) == Deliver(p, 1)

StopperRuns ==
    \/ ST_JoinProcessor
    \/ ST_JoinExporter
    \/ ST_Drain
    \/ ST_Get
    \/ ST_Process
    \/ ST_ExpireAll

NextQuiet ==
    \/ PC_Start
    \/ \E p \in CapPackets(now) : QT_PacketCallback(p)
    \/ Processor
    \/ Exporter
    \/ Stopper
    \/ PC_Tick

SpecQuiet ==
    /\ Init
    /\ [][NextQuiet]_vars
    /\ WF_vars(Processor)
    /\ WF_vars(Exporter)
    /\ WF_vars(StopperRuns)
    /\ WF_vars(PC_Tick)

(***************************************************************************)
(* Properties of the flow table.                                            *)
(***************************************************************************)
Live(b) == Values(b.flows)

Gone(b, i) == b.objs[i].is_expired /\ i \notin Live(b)

\* C1: a packet with the RST bit, processed for a TCP flow the table holds
\* (in whatever state, from whichever endpoint), expires that flow in that
\* very call: the flow leaves the table, is_expired is true, end_time is set,
\* Flow.expire ran once on it, and the call returns the flow.
C1_RstExpiresOnce ==
    [][\A p \in TcpPackets(now) :
          LET f == Lookup(fb, KeyOf(p))
          IN  (TCP_ProcessPacket(p) /\ AnyBit(p.flags, RST) /\ f # None)
              => /\ Gone(fb', f)
                 /\ fb'.objs[f].end_time # NoTime
                 /\ fb'.objs[f].expire_calls = 1
                 /\ ret' = f]_vars

C3_ExpiredLeavesTableAndIsFrozen ==
    [][/\ \A i \in Live(fb') : ~fb'.objs[i].is_expired
       /\ \A i \in DOMAIN fb.objs :
             fb.objs[i].is_expired => fb'.objs[i] = fb.objs[i]]_vars

\* C3 witness: a flow was expired and a later packet of the same 5-tuple went
\* to a new live flow, the expired one keeping its single packet.
C3_Witness ==
    \E i, j \in DOMAIN fb.objs :
        /\ i < j
        /\ fb.objs[i].is_expired
        /\ fb.objs[i].packets = 1
        /\ fb.objs[j].key = fb.objs[i].key
        /\ j \in Live(fb)

\* the step is a process_packet call on an IP packet (packets_processed moves
\* in no other step) of the same 5-tuple as the IP packet processed before it;
\* prev describes that earlier call and prev' this one
SecondOfPair ==
    /\ fb'.packets_processed = fb.packets_processed + 1
    /\ prev.flow # None
    /\ prev'.key = prev.key

PairCounted ==
    /\ prev'.flow = prev.flow
    /\ fb'.objs[prev.flow].packets = prev.packets_before + 2
    /\ fb'.objs[prev.flow].bytes = prev.bytes_before + prev.size + prev'.size

\* C6 as stated: two IP packets of one 5-tuple processed one after the other,
\* whatever their flags, leave their flow with 2 more packets and
\* len(P1) + len(P2) more bytes.
C6_PairCountedAlways ==
    [][SecondOfPair => PairCounted]_vars

\* C6 amended: the same, provided the flow P1 was added to is still in the
\* live table when P2 is processed.
C6_PairCountedWhileLive ==
    [][(SecondOfPair /\ prev.flow \in Live(fb)) => PairCounted]_vars

\* C6 witness: P2 joined the flow P1 had created; the lengths differ (60, 40).
C6_Witness ==
    /\ prev.flow # None
    /\ prev.packets_before = 1
    /\ fb.objs[prev.flow].packets = 2
    /\ fb.objs[prev.flow].bytes = 100

\* a flow that has seen SYN, SYN-ACK and ACK, and nothing else
Handshaken(f) ==
    /\ f.state = "established"
    /\ f.packets = 3
    /\ f.tcp_flags.syn = 2
    /\ f.tcp_flags.ack = 2

\* the step runs the timeout sweep at time now and adds no packet to flow i:
\* _expire_flows is called, or process_packet handles a packet of another
\* flow and its once-per-second check fires
SweepsNotTouching(i) ==
    \/ SW_ExpireFlows
    \/ \E p \in SweepPackets(now) :
          /\ SW_ProcessPacket(p)
          /\ p.hasIP
          /\ Lookup(fb, KeyOf(p)) # i
          /\ now - fb.last_expiry_check > ExpiryCheckInterval

\* C7: a sweep expires a handshaken flow when more than inactive_timeout has
\* passed since its last packet, and leaves it live and unchanged when at most
\* inactive_timeout has passed since its last packet and its age is at most
\* active_timeout.
C7_SweepExpiresWhenInactiveNotBefore ==
    [][\A i \in Live(fb) :
          (Handshaken(fb.objs[i]) /\ SweepsNotTouching(i))
          => /\ (now - fb.objs[i].last_time > inactive_timeout)
                   => (Gone(fb', i) /\ fb'.objs[i].end_time = now)
             /\ (/\ now - fb.objs[i].last_time <= inactive_timeout
                 /\ now - fb.objs[i].start_time <= active_timeout)
                   => (i \in Live(fb') /\ fb'.objs[i] = fb.objs[i])]_vars

\* C7 witness: a handshaken flow was expired by a sweep, more than
\* inactive_timeout after its last packet and within active_timeout of its first.
C7_Witness ==
    \E i \in DOMAIN fb.objs :
        /\ Handshaken(fb.objs[i])
        /\ Gone(fb, i)
        /\ fb.objs[i].end_time - fb.objs[i].last_time > inactive_timeout
        /\ fb.objs[i].end_time - fb.objs[i].start_time <= active_timeout

(***************************************************************************)
(* Properties of PacketCapture.                                             *)
(***************************************************************************)
Count(seq, x) == Cardinality({k \in DOMAIN seq : seq[k] = x})

Finished(i) == fb.objs[i].is_expired

\* stop() has returned, and both worker threads had ended when stop() joined
\* them (neither join ran into its 5 s timeout)
ShutDown ==
    /\ stopper.pc = "done"
    /\ stopper.joined
    /\ proc.pc = "done"
    /\ expo.pc = "done"

\* C2: no flow is handed to _export_flow twice, and once stop() has returned,
\* the threads having ended, every finished flow has been handed to it once.
C2_ExportedExactlyOnce ==
    /\ \A i \in DOMAIN fb.objs : Count(exported, i) <= 1
    /\ ShutDown => \A i \in DOMAIN fb.objs : Finished(i) => Count(exported, i) = 1

\* C4: once stop() has returned, the threads having ended, every finished
\* flow (buffered in expired_flows before or during the drain, or live until
\* expire_all_flows) has been exported.
C4_StopLosesNoFlow ==
    ShutDown => \A i \in DOMAIN fb.objs : Finished(i) => i \in Range(exported)

\* C5: every flow appended to expired_flows (every finished flow is) is still
\* in the buffer or was returned by exactly one get_expired_flows call.
C5_BufferedFlowReturnedOnce ==
    \A i \in DOMAIN fb.objs :
        Finished(i) => Count(fb.expired_flows, i) + Count(fetched, i) = 1

\* a live flow whose inactive or active timeout has passed
Overdue(i) ==
    /\ i \in DOMAIN fb.objs
    /\ i \in Live(fb)
    /\ \/ is_inactive(fb.objs[i], now, inactive_timeout)
       \/ is_active_timeout(fb.objs[i], now, active_timeout)

\* C8: a live flow whose inactive or active timeout has passed is eventually
\* expired and exported, even when no further packet is processed and stop()
\* is not called (flow 1 is the one flow of a quiet capture).
C8_OverdueFlowEventuallyExported ==
    (Overdue(1) /\ stopper.pc = "idle")
        ~> (1 \in Range(exported) \/ stopper.pc # "idle")

(***************************************************************************)
(* End-to-end property.                                                     *)
(***************************************************************************)
Untimed(p) == [p EXCEPT !.time = 0]

\* exactly SYN A:1234->B:80, SYN-ACK B:80->A:1234, ACK A:1234->B:80, in order
HandshakeSeen(o) ==
    /\ Len(o) = 3
    /\ Untimed(o[1]) = Packet("A", "B", "TCP", 1234, 80, SYN, 60, 0)
    /\ Untimed(o[2]) = Packet("B", "A", "TCP", 80, 1234, SYNACK, 60, 0)
    /\ Untimed(o[3]) = Packet("A", "B", "TCP", 1234, 80, ACK, 40, 0)

\* one flow in the table, established, three packets
OneEstablishedFlow(b) ==
    /\ Cardinality(Live(b)) = 1
    /\ \A i \in Live(b) :
          /\ b.objs[i].state = "established"
          /\ b.objs[i].packets = 3

\* nodes A and B and one edge between them, of weight 3
OneEdgeOfWeight3(g) ==
    /\ DOMAIN g.nodes = {"A", "B"}
    /\ DOMAIN g.edges = {{"A", "B"}}
    /\ g.edges[{"A", "B"}].weight = 3

\* C9 as stated: once the three packets are processed in order, one
\* established flow of 3 packets and one A-B edge of weight 3, and a prune
\* at the time of the last packet removes nothing.
C9_HandshakeAlways ==
    [][ /\ (Len(observed) = 2 /\ HandshakeSeen(observed')) =>
            (OneEstablishedFlow(fb') /\ OneEdgeOfWeight3(graph'))
        /\ (HandshakeSeen(observed) /\ now = observed[3].time /\ GM_Prune) =>
            graph' = graph ]_vars

\* the last packet comes no later than the active timeout after the first,
\* and each packet no later than the graph ttl after the one before it
Timely(o) ==
    /\ o[3].time - o[1].time <= active_timeout
    /\ o[2].time - o[1].time <= ttl
    /\ o[3].time - o[2].time <= ttl

\* C9: once the three packets are processed in order, the last within the
\* active timeout of the first and each within the graph ttl of the one
\* before, there is one established flow of 3 packets and one A-B edge of
\* weight 3, and a prune at the time of the last packet removes nothing.
C9_TimelyHandshake ==
    [][ /\ (Len(observed) = 2 /\ HandshakeSeen(observed')
                /\ Timely(observed')) =>
            (OneEstablishedFlow(fb') /\ OneEdgeOfWeight3(graph'))
        /\ (HandshakeSeen(observed) /\ Timely(observed)
                /\ now = observed[3].time /\ GM_Prune) =>
            graph' = graph ]_vars

\* the handshake has been processed in time and the graph pruned right after
C9_Witness ==
    /\ HandshakeSeen(observed)
    /\ Timely(observed)
    /\ pruned = [at |-> observed[3].time, after |-> 3]
    /\ OneEstablishedFlow(fb)
    /\ OneEdgeOfWeight3(graph)

(***************************************************************************)
(* Packets without an IP layer.                                             *)
(***************************************************************************)
\* FlowBuilder.get_stats()
get_stats(b) ==
    [packets_processed |-> b.packets_processed,
     flows_created |-> b.flows_created,
     flows_expired |-> b.flows_expired,
     active_flows |-> Cardinality(DOMAIN b.flows),
     expired_flows_buffered |-> Len(b.expired_flows)]

\* the call changes nothing of the flow table, the flows, the buffer and the
\* three counters
TableUntouched ==
    /\ fb'.flows = fb.flows
    /\ fb'.objs = fb.objs
    /\ fb'.expired_flows = fb.expired_flows
    /\ fb'.packets_processed = fb.packets_processed
    /\ fb'.flows_created = fb.flows_created
    /\ fb'.flows_expired = fb.flows_expired

\* C11: process_packet on a packet without an IP layer returns None, leaves
\* the table, the flows, the buffer and the three counters as they were, and
\* counts the drop: some metric that get_stats reports moves.
C11_NonIPDroppedAndCounted ==
    [][FB_ProcessPacket(NonIP(now)) =>
          /\ ret' = None
          /\ TableUntouched
          /\ get_stats(fb') # get_stats(fb)]_vars

(***************************************************************************)
(* The ingestion queue when it is full.                                     *)
(***************************************************************************)
\* packet_queue.full()
QueueFull == Len(cap.packet_queue) = MaxQueue

\* the callback left a record of the drop: the capture's state is not what it
\* is after merely counting the packet as captured
DropCounted == cap' # [cap EXCEPT !.packets_captured = @ + 1]

\* C12: _packet_callback on a full queue returns at once (the step is the
\* whole call), leaves the queued packets as they were, and counts the drop.
C12_FullQueueDropsAndCounts ==
    [][\A p \in CapPackets(now) :
          (QueueFull /\ PC_PacketCallback(p)) =>
              /\ cap'.packet_queue = cap.packet_queue
              /\ DropCounted]_vars

(***************************************************************************)
(* Shutdown and new work.                                                   *)
(***************************************************************************)
\* stop() has been called: it has set running to False
StopCalled == stopper.pc # "idle" /\ ~cap.running

\* C13: once stop() has been called no new work is accepted: a packet the
\* sniffer delivers from then on is not put on the queue (and so is never
\* applied to the flow table).
C13_NoNewWorkAfterStop ==
    [][\A p \in CapPackets(now) :
          (StopCalled /\ PC_PacketCallback(p)) =>
              cap'.packet_queue = cap.packet_queue]_vars

(***************************************************************************)
(* Order of the packets of one flow.                                        *)
(***************************************************************************)
\* two packets belong to one flow of the bidirectional table
SameFlow(p, q) == KeyOf(p) = KeyOf(q) \/ KeyOf(p) = reversed(KeyOf(q))

\* C14: the packets of one flow are applied to the flow table in the order
\* they were captured, whichever thread applies them.
C14_AppliedInCaptureOrder ==
    \A i, j \in DOMAIN cap.applied :
        (i < j /\ SameFlow(cap.applied[i], cap.applied[j]))
            => cap.applied[i].seq < cap.applied[j].seq

(***************************************************************************)
(* FeatureExtractor.extract_flow_features.  Its argument is used as a dict  *)
(* (flow.get, 'k' in flow, flow['k']).  A dict is a function from keys to    *)
(* values; a Flow object has none of the dict methods.  Numbers that may be  *)
(* quotients are kept as fractions.                                          *)
(***************************************************************************)
Ratio(n, d) == [num |-> n, den |-> d]

Whole(n) == Ratio(n, 1)

\* a Flow object as the argument
FlowObject(f) == [is_dict |-> FALSE, value |-> f]

\* a dict as the argument
FlowDict(d) == [is_dict |-> TRUE, value |-> d]

\* d.get(k, default)
Get(d, k, default) == IF k \in DOMAIN d THEN d[k] ELSE default

\* dict.update
Update(a, b) ==
    [k \in DOMAIN a \cup DOMAIN b |-> IF k \in DOMAIN b THEN b[k] ELSE a[k]]

\* line 50 raises: the argument has no get method (AttributeError), or a
\* time it holds is None (TypeError)
DurationRaises(flow) ==
    \/ ~flow.is_dict
    \/ Get(flow.value, "end_time", 0) = NoTime
    \/ Get(flow.value, "start_time", 0) = NoTime

\* lines 50-65: duration, bytes, packets and the derived rates
BasicFeatures(d) ==
    LET span == Get(d, "end_time", 0) - Get(d, "start_time", 0)
        bytes == Get(d, "bytes", 0)
        packets == Get(d, "packets", 0)
    IN  [duration |-> Ratio(span, 1000000),
         bytes |-> Whole(bytes),
         packets |-> Whole(packets),
         bytes_per_second |->
             IF span > 0 THEN Ratio(bytes * 1000000, span) ELSE Whole(bytes),
         packets_per_second |->
             IF span > 0 THEN Ratio(packets * 1000000, span) ELSE Whole(packets),
         bytes_per_packet |->
             IF packets > 0 THEN Ratio(bytes, packets) ELSE Whole(0)]

\* lines 68-82: flag counts, and the flag ratios when there are packets
FlagFeatures(d) ==
    IF "tcp_flags" \notin DOMAIN d THEN EmptyTable
    ELSE
    LET flags == d["tcp_flags"]
        packets == Get(d, "packets", 0)
        counts == [syn_count |-> Whole(Get(flags, "syn", 0)),
                   ack_count |-> Whole(Get(flags, "ack", 0)),
                   fin_count |-> Whole(Get(flags, "fin", 0)),
                   rst_count |-> Whole(Get(flags, "rst", 0)),
                   psh_count |-> Whole(Get(flags, "psh", 0)),
                   urg_count |-> Whole(Get(flags, "urg", 0))]
    IN  IF packets > 0
        THEN Update(counts,
                    [syn_ratio |-> Ratio(Get(flags, "syn", 0), packets),
                     ack_ratio |-> Ratio(Get(flags, "ack", 0), packets),
                     fin_ratio |-> Ratio(Get(flags, "fin", 0), packets),
                     rst_ratio |-> Ratio(Get(flags, "rst", 0), packets)])
        ELSE counts

Flag01(b) == IF b THEN Whole(1) ELSE Whole(0)

\* lines 85-102: ports, services, protocol
PortFeatures(d) ==
    LET src_port == Get(d, "src_port", 0)
        dst_port == Get(d, "dst_port", 0)
        protocol == Get(d, "protocol", "")
    IN  [src_port |-> Whole(src_port),
         dst_port |-> Whole(dst_port),
         is_well_known_port |-> Flag01(src_port < 1024 \/ dst_port < 1024),
         is_http |-> Flag01(src_port = 80 \/ dst_port = 80),
         is_https |-> Flag01(src_port = 443 \/ dst_port = 443),
         is_dns |-> Flag01(src_port = 53 \/ dst_port = 53),
         is_smtp |-> Flag01(src_port = 25 \/ dst_port = 25),
         is_ssh |-> Flag01(src_port = 22 \/ dst_port = 22),
         is_tcp |-> Flag01(protocol \in {"tcp", "TCP"}),
         is_udp |-> Flag01(protocol \in {"udp", "UDP"}),
         is_icmp |-> Flag01(protocol \in {"icmp", "ICMP"})]

\* lines 105-126: which statistics keys are written for a list under key k
StatKeys(d, k, name) ==
    IF k \in DOMAIN d /\ d[k] # <<>>
    THEN {"min_" \o name, "max_" \o name, "mean_" \o name, "std_" \o name}
    ELSE {}

\* lines 129-134: the connection state flags
StateFeatures(d) ==
    IF "state" \notin DOMAIN d THEN EmptyTable
    ELSE [is_established |-> Flag01(d["state"] = "established"),
          is_closed |-> Flag01(d["state"] = "closed"),
          is_reset |-> Flag01(d["state"] = "reset"),
          is_ongoing |-> Flag01(d["state"] = "ongoing")]

\* the map the call returns, less the list statistics (see StatKeys).  An
\* exception at line 50 is caught at line 138 and the map, still empty, is
\* returned.
extract_flow_features(flow) ==
    IF DurationRaises(flow) THEN EmptyTable
    ELSE Update(Update(Update(BasicFeatures(flow.value), FlagFeatures(flow.value)),
                       PortFeatures(flow.value)),
                StateFeatures(flow.value))

\* the keys of the map the call returns
FeatureKeysOf(flow) ==
    IF DurationRaises(flow) THEN {}
    ELSE DOMAIN extract_flow_features(flow)
         \cup StatKeys(flow.value, "packet_sizes", "packet_size")
         \cup StatKeys(flow.value, "inter_arrival_times", "iat")

RateRatioKeys ==
    {"bytes_per_second", "packets_per_second", "bytes_per_packet",
     "syn_ratio", "ack_ratio", "fin_ratio", "rst_ratio"}

\* a Flow that has seen no packet
ZeroPacketFlow == NewFlow(FlowKey("A", "B", 1234, 80, "TCP"), TRUE)

\* every rate and ratio feature is in the map, with value 0
RatesPresentAndZero(flow) ==
    /\ RateRatioKeys \subseteq FeatureKeysOf(flow)
    /\ \A k \in RateRatioKeys : extract_flow_features(flow)[k].num = 0

\* C15: the map extracted for a flow handed to _export_flow holds every rate
\* and ratio feature, its key set is that of every other exported flow and of
\* a flow with zero packets, and for a flow with zero packets every rate and
\* ratio feature is 0.
C15_FeaturesFullyDefined ==
    \A k \in DOMAIN exported :
        /\ RateRatioKeys \subseteq FeatureKeysOf(FlowObject(fb.objs[exported[k]]))
        /\ FeatureKeysOf(FlowObject(fb.objs[exported[k]]))
               = FeatureKeysOf(FlowObject(ZeroPacketFlow))
        /\ RatesPresentAndZero(FlowObject(ZeroPacketFlow))

(***************************************************************************)
(* EnhancedGraphManager (simple_graph_analyzer.py): nodes is a dict, links  *)
(* a list.  The clock of a graph manager counts minutes, so that the 60 s   *)
(* of get_graph_data are one unit (AutoPruneInterval).                      *)
(***************************************************************************)
\* EnhancedGraphManager.__init__ at time t
NewEnhancedGraphManager(t) ==
    [nodes |-> EmptyTable, links |-> <<>>, last_prune |-> t]

\* EnhancedGraphManager.add_node
add_node(g, node_id, current_time) ==
    IF node_id \notin DOMAIN g.nodes
    THEN [g EXCEPT !.nodes =
              Put(g.nodes, node_id,
                  [id |-> node_id, packet_count |-> 1,
                   first_seen |-> current_time, last_seen |-> current_time])]
    ELSE [g EXCEPT !.nodes[node_id].packet_count = @ + 1,
                   !.nodes[node_id].last_seen = current_time]

\* the test of add_edge's loop: the link joins source and target, either way
Joins(link, source, target) ==
    \/ link.source = source /\ link.target = target
    \/ link.source = target /\ link.target = source

\* add_edge with a loop that only finds a link of the same direction
add_edge_OneWay(g, source, target, current_time) ==
    LET hits == {k \in DOMAIN g.links :
                    g.links[k].source = source /\ g.links[k].target = target}
    IN  IF hits # {}
        THEN [g EXCEPT !.links[Min(hits)].weight = @ + 1,
                       !.links[Min(hits)].last_seen = current_time]
        ELSE [g EXCEPT !.links =
                  Append(@, [source |-> source, target |-> target, weight |-> 1,
                             first_seen |-> current_time,
                             last_seen |-> current_time])]

\* EnhancedGraphManager.add_edge: the first link that joins the two is
\* refreshed, or a new link is appended
add_edge(g, source, target, current_time) ==
    LET hits == {k \in DOMAIN g.links : Joins(g.links[k], source, target)}
    IN  IF hits # {}
        THEN [g EXCEPT !.links[Min(hits)].weight = @ + 1,
                       !.links[Min(hits)].last_seen = current_time]
        ELSE [g EXCEPT !.links =
                  Append(@, [source |-> source, target |-> target, weight |-> 1,
                             first_seen |-> current_time,
                             last_seen |-> current_time])]

\* prune_old_data that keeps a node by its own age only
prune_old_data_ByAgeOnly(g, current_time) ==
    LET Fresh(link) == current_time - link.last_seen <= ttl
        links == SelectSeq(g.links, Fresh)
        kept == {n \in DOMAIN g.nodes :
                    current_time - g.nodes[n].last_seen <= ttl}
    IN  [g EXCEPT !.links = links,
                  !.nodes = Drop(g.nodes, DOMAIN g.nodes \ kept)]

\* EnhancedGraphManager.prune_old_data
prune_old_data(g, current_time) ==
    LET Fresh(link) == current_time - link.last_seen <= ttl
        links == SelectSeq(g.links, Fresh)
        active_nodes == {links[k].source : k \in DOMAIN links}
                        \cup {links[k].target : k \in DOMAIN links}
        kept == {n \in DOMAIN g.nodes :
                    \/ n \in active_nodes
                    \/ current_time - g.nodes[n].last_seen <= ttl}
    IN  [g EXCEPT !.links = links,
                  !.nodes = Drop(g.nodes, DOMAIN g.nodes \ kept)]

\* EnhancedGraphManager.get_graph_data: what it does to the manager
get_graph_data(g, current_time) ==
    IF current_time - g.last_prune > AutoPruneInterval
    THEN [prune_old_data(g, current_time) EXCEPT !.last_prune = current_time]
    ELSE g

(***************************************************************************)
(* A backend with one graph manager, of either class: updates, prune passes *)
(* and reads at any time.                                                   *)
(***************************************************************************)
\* the manager is a GraphManager (else an EnhancedGraphManager)
IsGraphManager(g) == "edges" \in DOMAIN g

Hosts == {"A", "B"}

\* the host pairs that exchange packets
HostPairs == {<<"A", "B">>, <<"B", "A">>}

InitGraphs ==
    /\ InitRest
    /\ graph \in {NewGraphManager, NewEnhancedGraphManager(0)}

GraphFrame ==
    UNCHANGED <<fb, now, prev, ret, cap, proc, expo, stopper, exported, fetched,
                observed, pruned, ga, server>>

\* no counter of the node has reached the bound
Countable(nodes, n) == n \in DOMAIN nodes => nodes[n].packet_count < MaxGraphCount

\* GraphManager.update_graph for a packet from src to dst captured now
GR_UpdateGraph(src, dst) ==
    /\ IsGraphManager(graph)
    /\ Countable(graph.nodes, src)
    /\ Countable(graph.nodes, dst)
    /\ graph' = UpdateGraph(graph,
                    FeatureVector(Packet(src, dst, "UDP", 5353, 53, 0, 100, now)))
    /\ GraphFrame

\* one round of GraphManager.prune_graph_periodically
GR_Prune ==
    /\ IsGraphManager(graph)
    /\ GM_Prune

EG_AddNode(node_id) ==
    /\ ~IsGraphManager(graph)
    /\ Countable(graph.nodes, node_id)
    /\ graph' = add_node(graph, node_id, now)
    /\ GraphFrame

EG_AddEdge(source, target) ==
    /\ ~IsGraphManager(graph)
    /\ \A k \in DOMAIN graph.links :
          Joins(graph.links[k], source, target)
              => graph.links[k].weight < MaxGraphCount
    /\ graph' = add_edge(graph, source, target, now)
    /\ GraphFrame

EG_PruneOldData ==
    /\ ~IsGraphManager(graph)
    /\ graph' = prune_old_data(graph, now)
    /\ GraphFrame

EG_GetGraphData ==
    /\ ~IsGraphManager(graph)
    /\ graph' = get_graph_data(graph, now)
    /\ GraphFrame

GR_Tick == Pass(MaxGraphTime)

NextGraphs ==
    \/ \E pair \in HostPairs : GR_UpdateGraph(pair[1], pair[2])
    \/ GR_Prune
    \/ \E n \in Hosts : EG_AddNode(n)
    \/ \E pair \in HostPairs : EG_AddEdge(pair[1], pair[2])
    \/ EG_PruneOldData
    \/ EG_GetGraphData
    \/ GR_Tick

SpecGraphs == InitGraphs /\ [][NextGraphs]_vars

(***************************************************************************)
(* Properties of the graph managers.                                        *)
(***************************************************************************)
\* the edges of either manager, each as [ends, weight, last_seen]
EdgesOf(g) ==
    IF IsGraphManager(g)
    THEN {[ends |-> e, weight |-> g.edges[e].weight,
           last_seen |-> g.edges[e].last_seen] : e \in DOMAIN g.edges}
    ELSE {[ends |-> {g.links[k].source, g.links[k].target},
           weight |-> g.links[k].weight,
           last_seen |-> g.links[k].last_seen] : k \in DOMAIN g.links}

\* the number of edge objects the manager holds
EdgeCount(g) ==
    IF IsGraphManager(g) THEN Cardinality(DOMAIN g.edges) ELSE Len(g.links)

\* the weight of the edge between the two hosts, 0 when there is none
WeightBetween(g, ends) ==
    IF \E e \in EdgesOf(g) : e.ends = ends
    THEN (CHOOSE e \in EdgesOf(g) : e.ends = ends).weight
    ELSE 0

\* the step is an update of the pair (src, dst), on either manager
UpdatesPair(src, dst) == GR_UpdateGraph(src, dst) \/ EG_AddEdge(src, dst)

\* at most one edge object per unordered host pair
NoDuplicateEdge(g) ==
    \A pair \in HostPairs :
        Cardinality({e \in EdgesOf(g) : e.ends = {pair[1], pair[2]}}) <= 1
        /\ (~IsGraphManager(g) =>
               Cardinality({k \in DOMAIN g.links :
                               Joins(g.links[k], pair[1], pair[2])}) <= 1)

\* C16: there is never more than one edge per unordered host pair; an update
\* of (A,B) and an update of (B,A) each add 1 to the weight of that one edge
\* and add no edge when it exists; no step lowers the weight of an edge that
\* is in the graph before and after it.
C16_UpdateKeepsOneEdgePerPair ==
    [][ /\ NoDuplicateEdge(graph')
        /\ \A pair \in HostPairs :
              UpdatesPair(pair[1], pair[2]) =>
                  /\ WeightBetween(graph', {pair[1], pair[2]})
                         = WeightBetween(graph, {pair[1], pair[2]}) + 1
                  /\ (WeightBetween(graph, {pair[1], pair[2]}) > 0
                         => EdgeCount(graph') = EdgeCount(graph))
        /\ \A e \in EdgesOf(graph) : \A d \in EdgesOf(graph') :
              d.ends = e.ends => d.weight >= e.weight ]_vars

\* an EnhancedGraphManager holds one A-B link that was updated a second time,
\* later than it was made
C16_Witness ==
    /\ ~IsGraphManager(graph)
    /\ Len(graph.links) = 1
    /\ graph.links[1].weight = 2
    /\ graph.links[1].first_seen < graph.links[1].last_seen

\* the step is a prune pass at time now, on either manager
PrunePass ==
    \/ GR_Prune
    \/ EG_PruneOldData
    \/ /\ ~IsGraphManager(graph)
       /\ now - graph.last_prune > AutoPruneInterval
       /\ EG_GetGraphData

\* the node is an end of some edge
HasEdge(g, n) == \E e \in EdgesOf(g) : n \in e.ends

\* C17: a prune pass at time now removes an edge last seen at now - ttl - 1
\* and keeps one last seen at now - ttl + 1; it removes a node that is left
\* without an edge and was last seen more than ttl ago, and removes no node
\* that still has an edge.
C17_PruneByTtl ==
    [][PrunePass =>
          /\ \A e \in EdgesOf(graph) :
                /\ e.last_seen = now - ttl - 1
                      => ~\E d \in EdgesOf(graph') : d.ends = e.ends
                /\ e.last_seen = now - ttl + 1 => e \in EdgesOf(graph')
          /\ \A n \in DOMAIN graph.nodes :
                /\ (~HasEdge(graph', n) /\ now - graph.nodes[n].last_seen > ttl)
                      => n \notin DOMAIN graph'.nodes
                /\ HasEdge(graph', n) => n \in DOMAIN graph'.nodes]_vars

\* get_graph_data has just pruned an EnhancedGraphManager whose link was last
\* seen at now - ttl + 1, and whose node A is older than ttl: both are kept
C17_Witness ==
    /\ ~IsGraphManager(graph)
    /\ graph.last_prune = now
    /\ \E k \in DOMAIN graph.links :
          /\ graph.links[k].last_seen = now - ttl + 1
          /\ Joins(graph.links[k], "A", "B")
    /\ "A" \in DOMAIN graph.nodes
    /\ now - graph.nodes["A"].last_seen > ttl

\* C18: in every reachable state each edge of the graph joins two nodes that
\* are in the graph.
C18_EdgesJoinPresentNodes ==
    \A e \in EdgesOf(graph) : e.ends \subseteq DOMAIN graph.nodes


(***************************************************************************)
(* The graph backend with its scheduling: prune_graph_periodically is a     *)
(* task that loops for ever, and time passes; packets and reads of the      *)
(* graph come when they come.  The EnhancedGraphManager has no task of its  *)
(* own: prune_old_data runs only when somebody calls it or reads the graph. *)
(***************************************************************************)
SpecGraphsFair ==
    /\ SpecGraphs
    /\ WF_vars(GR_Prune)
    /\ WF_vars(GR_Tick)

\* the graph holds an edge last seen more than ttl ago
OldEdge == \E e \in EdgesOf(graph) : now - e.last_seen > ttl

\* C19: an edge whose last_seen is older than ttl is eventually removed (or
\* seen again), with no update and no read of the graph needed for it.
C19_QuietGraphShrinks == OldEdge ~> ~OldEdge


(***************************************************************************)
(* The GraphAnalyzer called cycle after cycle.  Between two cycles the      *)
(* graph changes freely, and betweenness is estimated from a random sample  *)
(* of k = n - 1 source nodes, so the scores of a cycle are any values.      *)
(***************************************************************************)
\* one call of _analyze_centrality_shifts on a graph that holds these nodes
GA_AnalyzeCentralityShifts(nodes) ==
    /\ \E betweenness_centrality \in [nodes -> 0..MaxBc] :
          ga' = analyze_centrality_shifts(ga, betweenness_centrality)
    /\ UNCHANGED <<fb, now, prev, ret, cap, proc, expo, stopper, exported,
                   fetched, graph, observed, pruned, server>>

NextAnalyzer == \E nodes \in SUBSET Hosts : GA_AnalyzeCentralityShifts(nodes)

SpecAnalyzer == Init /\ [][NextAnalyzer]_vars

\* the alerts of type CentralityShift that name the node
ShiftAlerts(alerts, node) ==
    {a \in alerts : a.type = "CentralityShift" /\ a.node = node}

\* C20: in a cycle the strategy alerts for a node of the graph exactly when a
\* previous betweenness above zero is recorded for it, the current value is
\* above the floor 0.1 and above 5 times the previous one; a node seen for
\* the first time does not alert; and after the cycle the node's history is
\* the current value, alert or not.
C20_ShiftAlertsExactlyOnSpike ==
    [][ga' # ga =>
          \A node \in DOMAIN ga'.betweenness :
             LET curr == ga'.betweenness[node]
                 recorded == node \in DOMAIN ga.centrality_history
             IN  /\ ShiftAlerts(ga'.alerts, node) # {}
                      <=> /\ recorded
                          /\ ga.centrality_history[node] > 0
                          /\ curr > 10
                          /\ curr > 5 * ga.centrality_history[node]
                 /\ ~recorded => ShiftAlerts(ga'.alerts, node) = {}
                 /\ node \in DOMAIN ga'.centrality_history
                 /\ ga'.centrality_history[node] = curr]_vars

\* a cycle in which one node alerted and another, scoring above the floor,
\* did not
C20_Witness ==
    \E n, m \in DOMAIN ga.betweenness :
        /\ ShiftAlerts(ga.alerts, n) # {}
        /\ ShiftAlerts(ga.alerts, m) = {}
        /\ ga.betweenness[m] > BetweennessFloor
        /\ ga.centrality_history[m] = ga.betweenness[m]


(***************************************************************************)
(* Properties of the TCP state machine, seen through process_packet: the    *)
(* step adds one TCP packet to the flow prev'.flow, and the flag counters   *)
(* of that flow tell which bits the packet carried.                         *)
(***************************************************************************)
\* the flow the step's packet goes to, as it was before the call
FlowBefore ==
    IF prev'.flow \in DOMAIN fb.objs THEN fb.objs[prev'.flow]
    ELSE NewFlow(prev'.key, fb.bidirectional)

\* the step is a process_packet call whose TCP packet carried the bit
Carried(bit) ==
    /\ fb'.packets_processed = fb.packets_processed + 1
    /\ prev'.flow # None
    /\ fb'.objs[prev'.flow].tcp_flags[bit] = FlowBefore.tcp_flags[bit] + 1

\* C25: a packet carrying RST moves its flow to the state reset, whatever the
\* state before and whatever other bits the packet carries.
C25_RstResetsFromEveryState ==
    [][Carried("rst") => fb'.objs[prev'.flow].state = "reset"]_vars


\* C26: from the state new a packet with SYN and no ACK gives syn_sent, one
\* with SYN and ACK gives syn_received, and one that matches no rule (no
\* SYN: ACK alone, FIN alone, no flags) leaves the state new.
C26_TransitionsFromNew ==
    [][(Carried("syn") \/ Carried("ack") \/ Carried("fin"))
           /\ FlowBefore.state = "new"
         => fb'.objs[prev'.flow].state =
               IF Carried("syn") /\ Carried("ack") THEN "syn_received"
               ELSE IF Carried("syn") THEN "syn_sent"
               ELSE "new"]_vars


\* C27: a sweep _expire_flows(now) expires and removes exactly the live flows
\* older than active_timeout or idle for more than inactive_timeout, appends
\* each of them once to expired_flows, and leaves every other flow in the
\* table, under its key, with all its fields unchanged.
C27_SweepExpiresExactlyTheTimedOut ==
    [][SW_ExpireFlows =>
          LET due == {i \in Live(fb) :
                        \/ now - fb.objs[i].start_time > active_timeout
                        \/ now - fb.objs[i].last_time > inactive_timeout}
          IN  /\ Live(fb') = Live(fb) \ due
              /\ \A i \in due :
                    /\ Gone(fb', i)
                    /\ Count(fb'.expired_flows, i) = Count(fb.expired_flows, i) + 1
              /\ Len(fb'.expired_flows) = Len(fb.expired_flows) + Cardinality(due)
              /\ \A k \in DOMAIN fb.flows :
                    fb.flows[k] \notin due
                    => /\ k \in DOMAIN fb'.flows
                       /\ fb'.flows[k] = fb.flows[k]
                       /\ fb'.objs[fb.flows[k]] = fb.objs[fb.flows[k]]]_vars

\* a sweep expired one flow by its age alone (its last packet was recent) and
\* left a younger flow in the table
C27_Witness ==
    \E i, j \in DOMAIN fb.objs :
        /\ Gone(fb, i)
        /\ Count(fb.expired_flows, i) = 1
        /\ fb.objs[i].end_time - fb.objs[i].start_time > active_timeout
        /\ fb.objs[i].end_time - fb.objs[i].last_time <= inactive_timeout
        /\ j \in Live(fb)
        /\ fb.objs[i].end_time - fb.objs[j].start_time <= active_timeout
        /\ fb.objs[j].last_time <= fb.objs[i].end_time


\* C29: the bidirectional table never holds a flow under a key and another
\* under the reversed key; a packet of a conversation that has a live flow,
\* from either endpoint, is appended to that flow and makes no new one.
C29_OneLiveFlowPerConversation ==
    [][/\ \A k \in DOMAIN fb'.flows :
             reversed(k) # k => reversed(k) \notin DOMAIN fb'.flows
       /\ \A k \in DOMAIN fb.flows :
             (/\ fb'.packets_processed = fb.packets_processed + 1
              /\ prev'.key \in {k, reversed(k)})
             => /\ prev'.flow = fb.flows[k]
                /\ fb'.flows_created = fb.flows_created
                /\ fb'.objs[fb.flows[k]].packets = fb.objs[fb.flows[k]].packets + 1]_vars

\* a live flow holds one packet from each endpoint
C29_Witness ==
    \E k \in DOMAIN fb.flows :
        /\ fb.objs[fb.flows[k]].packets = 2
        /\ prev.key = reversed(k)
        /\ prev.key # k
        /\ prev.flow = fb.flows[k]


\* C30: the counters agree with the table: flows_created is flows_expired
\* plus the number of live flows.
C30_CountersMatchTable ==
    fb.flows_created = fb.flows_expired + Cardinality(Live(fb))


(***************************************************************************)
(* The pattern strategy called on one graph after another.  The graphs are  *)
(* made of a host S with up to MaxPeers peers, each link of weight 1, and   *)
(* of a host H with the peers Q1 and Q2, each link of weight 50; Q1 and Q2  *)
(* may be linked with each other.                                           *)
(***************************************************************************)
ScanPeers == <<"P1", "P2", "P3", "P4", "P5", "P6", "P7">>

ScanLinks(k) == {[source |-> "S", target |-> ScanPeers[i], weight |-> 1] : i \in 1..k}

TalkLinks ==
    {[source |-> "H", target |-> "Q1", weight |-> 50],
     [source |-> "H", target |-> "Q2", weight |-> 50],
     [source |-> "Q1", target |-> "Q2", weight |-> 50]}

\* what get_graph_data returns when every end point was added as a node
GraphData(links) == [nodes |-> Linked(links), links |-> links]

\* one cycle of run_analysis_periodically on a graph of 3 nodes or more
SG_AnalyzeNetworkPatterns(links) ==
    /\ server.cycles < MaxPatternRuns
    /\ server' = [server EXCEPT !.cycles = @ + 1]
    /\ ga' = analyze_network_patterns(ga, GraphData(links))
    /\ UNCHANGED <<fb, now, prev, ret, cap, proc, expo, stopper, exported,
                   fetched, graph, observed, pruned>>

NextPatterns ==
    \E k \in 0..MaxPeers : \E talk \in SUBSET TalkLinks :
        SG_AnalyzeNetworkPatterns(ScanLinks(k) \cup talk)

InitPatterns ==
    /\ InitCore
    /\ graph = NewEnhancedGraphManager(0)
    /\ ga = NewSimpleGraphAnalyzer
    /\ server = NewServer("main")

SpecPatterns == InitPatterns /\ [][NextPatterns]_vars

\* the alerts that name the node
Naming(alerts, node) == {a \in alerts : node \in a.nodes}

\* the node has exactly these many peers, each by a link of this weight
HasPeers(links, node, count, weight) ==
    /\ Cardinality(Adjacency(links, node)) = count
    /\ \A l \in links : node \in {l.source, l.target} => l.weight = weight

\* C21: after a run of the pattern strategy, a node with 5 peers at weight 1
\* each is named by an alert, and a node with exactly 2 peers at weight 50
\* each is named by no alert of any type.
C21_ScanFlaggedHeavyTalkerNot ==
    \A n \in Linked(ga.graph_data.links) :
        /\ HasPeers(ga.graph_data.links, n, 5, 1) => Naming(ga.alerts, n) # {}
        /\ HasPeers(ga.graph_data.links, n, 2, 50) => Naming(ga.alerts, n) = {}


(***************************************************************************)
(* The graph pipeline of the server, feature vector after feature vector,   *)
(* with a predictor that is absent or answers or raises.                    *)
(***************************************************************************)
Outcomes ==
    IF server.detector THEN {"benign", "anomaly", "raises"} ELSE {"absent"}

\* PacketProcessor.process_packet hands the feature vector of an IP packet
\* to the pipeline
AP_AnalysisPipeline(p, outcome, delivered) ==
    /\ Len(observed) < MaxObserved
    /\ LET r == analysis_pipeline(server.app, graph, server.sent,
                                  FeatureVector(p), outcome, delivered)
       IN  /\ graph' = r.graph
           /\ server' = [server EXCEPT !.sent = r.sent, !.verdict = outcome]
    /\ observed' = Append(observed, p)
    /\ UNCHANGED <<fb, now, prev, ret, cap, proc, expo, stopper, exported,
                   fetched, pruned, ga>>

NextPipeline ==
    \E p \in E2EPackets(now) : \E outcome \in Outcomes : \E delivered \in BOOLEAN :
        AP_AnalysisPipeline(p, outcome, delivered)

InitPipeline ==
    /\ InitCore
    /\ graph = NewGraphManager
    /\ ga = NewGraphAnalyzer
    /\ \E app \in {"main", "main_robust"} : \E detector \in BOOLEAN :
          server = [NewServer(app) EXCEPT !.detector = detector]

SpecPipeline == InitPipeline /\ [][NextPipeline]_vars

\* C23: for every feature vector that enters the pipeline the graph is
\* updated exactly once (both end points and their edge count one packet
\* more), whether the predictor is absent, answers or raises; and when it is
\* absent or raises, no ML_Anomaly alert goes out.
C23_GraphUpdatedOncePerVector ==
    [][Len(observed') = Len(observed) + 1 =>
          LET p == observed'[Len(observed')]
              Before(n) == IF n \in DOMAIN graph.nodes
                           THEN graph.nodes[n].packet_count ELSE 0
              EdgeBefore == IF {p.src, p.dst} \in DOMAIN graph.edges
                            THEN graph.edges[{p.src, p.dst}].weight ELSE 0
          IN  /\ \A n \in {p.src, p.dst} :
                    /\ n \in DOMAIN graph'.nodes
                    /\ graph'.nodes[n].packet_count = Before(n) + 1
              /\ {p.src, p.dst} \in DOMAIN graph'.edges
              /\ graph'.edges[{p.src, p.dst}].weight = EdgeBefore + 1
              /\ server'.verdict \in {"absent", "raises"}
                    => server'.sent = server.sent
              /\ server'.sent # server.sent => server'.verdict = "anomaly"]_vars

\* the predictor raised on one vector and flagged another, in either order:
\* two vectors are in the graph and one alert went out
C23_Witness ==
    /\ Len(observed) = 3
    /\ server.verdict = "raises"
    /\ Len(server.sent) = 1
    /\ \E n \in DOMAIN graph.nodes : graph.nodes[n].packet_count = 3


(***************************************************************************)
(* The analysis task of the server (GraphAnalyzer.run_analysis_periodically *)
(* over the GraphManager), beside the tasks that update and prune the       *)
(* graph.  The task's positions: "sleeping" in asyncio.sleep; "clusters"    *)
(* after the centrality strategy and before the cluster strategy;           *)
(* "emitting" in an alert_callback; "dead" once an exception has left the   *)
(* loop.  server.view is the graph the cycle's first strategy read.         *)
(***************************************************************************)
\* the hosts of the monitored network, in the order they first talk
Chain == <<"A", "B", "C", "D", "E">>

\* the packet the k-th host sends to the next one
ChainPacket(k, time) == Packet(Chain[k], Chain[k + 1], "UDP", 5353, 53, 0, 100, time)

\* the graph after the first k hosts have each sent that packet, at time 0
RECURSIVE ChainGraph(_)
ChainGraph(k) ==
    IF k = 0 THEN NewGraphManager
    ELSE UpdateGraph(ChainGraph(k - 1), FeatureVector(ChainPacket(k, 0)))

\* the EnhancedGraphManager after the first two hosts and their link were
\* added, at time 0
PairGraph ==
    add_edge(add_node(add_node(NewEnhancedGraphManager(0), Chain[1], 0),
                      Chain[2], 0), Chain[1], Chain[2], 0)

\* the event loop hands control to another task only at an await that has
\* to wait (the sleep, a send); every await of the mutant does
Yields_AtEveryAwait(pc) == pc = pc

\* `await self._analyze_centrality_shifts()` runs a coroutine that awaits
\* nothing, so no other task runs between the two strategies
Yields(pc) == pc # "clusters"

\* a set of alerts in the order the strategy appended them
RECURSIVE InAppendOrder(_)
InAppendOrder(alerts) ==
    IF alerts = {} THEN <<>>
    ELSE LET a == CHOOSE x \in alerts : TRUE
         IN  <<a>> \o InAppendOrder(alerts \ {a})

\* the analysis task goes back to sleep when nothing is left to send
Resume(s) ==
    IF s.pc = "emitting" /\ s.pending = <<>>
    THEN [s EXCEPT !.pc = "sleeping", !.view = <<>>]
    ELSE s

\* update_graph for a packet between the last two hosts
LP_UpdateGraph ==
    /\ IsGraphManager(graph)
    /\ Yields(server.pc)
    /\ {Chain[4], Chain[5]} \in DOMAIN graph.edges
          => graph.edges[{Chain[4], Chain[5]}].weight < MaxGraphCount
    /\ graph' = UpdateGraph(graph, FeatureVector(ChainPacket(4, now)))
    /\ UNCHANGED <<fb, now, prev, ret, cap, proc, expo, stopper, exported,
                   fetched, observed, pruned, ga, server>>

\* one round of prune_graph_periodically
LP_Prune ==
    /\ IsGraphManager(graph)
    /\ Yields(server.pc)
    /\ GM_Prune

\* add_node for the third host (EnhancedGraphManager)
LP_AddNode ==
    /\ Yields(server.pc)
    /\ EG_AddNode(Chain[3])

\* the test that never skips a cycle
TooSmall_Never(g) == g # g

\* the size test of run_analysis_periodically, of either analyzer
TooSmall(g) ==
    Cardinality(DOMAIN g.nodes)
        < IF IsGraphManager(g) THEN AnalyzerFloor ELSE SimpleAnalyzerFloor

LP_Tick == Pass(MaxLoopTime)

\* the sleep ends: the size test, then the centrality strategy, which fails
\* (caught inside, no alert) or scores every node with the same value
AN_Wake(outcome, score) ==
    /\ IsGraphManager(graph)
    /\ server.pc = "sleeping"
    /\ server.cycles < MaxCycles
    /\ IF TooSmall(graph)
       THEN /\ server' = [server EXCEPT !.cycles = @ + 1, !.skipped = server.cycles + 1]
            /\ ga' = ga
       ELSE /\ ga' = IF outcome = "raises" THEN [ga EXCEPT !.alerts = {}]
                     ELSE analyze_centrality_shifts(ga,
                              [n \in DOMAIN graph.nodes |-> score])
            /\ server' = [server EXCEPT !.cycles = @ + 1,
                                        !.pc = "clusters",
                                        !.view = <<graph>>,
                                        !.pending = InAppendOrder(ga'.alerts)]
    /\ UNCHANGED <<fb, now, prev, ret, cap, proc, expo, stopper, exported,
                   fetched, graph, observed, pruned>>

\* _analyze_traffic_clusters: it fails (caught inside, no alert) or DBSCAN
\* marks these nodes as outliers
AN_Clusters(outcome, outliers) ==
    /\ server.pc = "clusters"
    /\ LET alerts == IF outcome = "raises" THEN {}
                     ELSE {Alert("TrafficClusterOutlier", {n}) : n \in outliers}
       IN  server' = Resume([server EXCEPT
                               !.pc = "emitting",
                               !.pending = @ \o InAppendOrder(alerts)])
    /\ UNCHANGED <<fb, now, prev, ret, cap, proc, expo, stopper, exported,
                   fetched, graph, observed, pruned, ga>>

\* `await alert_callback(alert)` for the next alert: alert_handler
\* broadcasts it.  When the send raises, main_robust.py's handler catches;
\* main.py's does not, and the exception leaves run_analysis_periodically.
AN_Emit(delivered) ==
    /\ server.pc = "emitting"
    /\ server' =
          IF ~delivered /\ server.app = "main"
          THEN [server EXCEPT !.pc = "dead"]
          ELSE Resume([server EXCEPT
                         !.sent = broadcast(@, Head(server.pending), delivered),
                         !.pending = Tail(@)])
    /\ UNCHANGED <<fb, now, prev, ret, cap, proc, expo, stopper, exported,
                   fetched, graph, observed, pruned, ga>>

\* a cycle of SimpleGraphAnalyzer.run_analysis_periodically up to its
\* first callback: get_graph_data (which may prune), the size test, the
\* pattern strategy
SA_Wake ==
    /\ ~IsGraphManager(graph)
    /\ server.pc = "sleeping"
    /\ server.cycles < MaxCycles
    /\ graph' = get_graph_data(graph, now)
    /\ IF TooSmall(graph')
       THEN /\ server' = [server EXCEPT !.cycles = @ + 1, !.skipped = server.cycles + 1]
            /\ ga' = ga
       ELSE /\ ga' = analyze_network_patterns(ga,
                        [nodes |-> DOMAIN graph'.nodes,
                         links |-> {[source |-> l.source, target |-> l.target,
                                     weight |-> l.weight] : l \in Range(graph'.links)}])
            /\ server' = Resume([server EXCEPT
                                   !.cycles = @ + 1,
                                   !.pc = "emitting",
                                   !.view = <<graph'>>,
                                   !.pending = InAppendOrder(ga'.alerts)])
    /\ UNCHANGED <<fb, now, prev, ret, cap, proc, expo, stopper, exported,
                   fetched, observed, pruned>>

NextLoop ==
    \/ LP_UpdateGraph
    \/ LP_Prune
    \/ LP_AddNode
    \/ SA_Wake
    \/ LP_Tick
    \/ \E outcome \in {"ok", "raises"} : \E score \in {1, MaxBc} :
          AN_Wake(outcome, score)
    \/ \E outcome \in {"ok", "raises"} :
          \E outliers \in SUBSET ({Chain[1]} \cap DOMAIN graph.nodes) :
             AN_Clusters(outcome, outliers)
    \/ \E delivered \in BOOLEAN : AN_Emit(delivered)

InitLoop ==
    /\ InitCore
    /\ graph \in {ChainGraph(3), ChainGraph(4), PairGraph}
    /\ ga = IF IsGraphManager(graph) THEN NewGraphAnalyzer
            ELSE NewSimpleGraphAnalyzer
    /\ server \in {NewServer("main"), NewServer("main_robust")}

SpecLoop == InitLoop /\ [][NextLoop]_vars

\* C22: a failure inside a strategy or while its alerts are sent never ends
\* the analysis task: the loop lives on to its next cycle.
C22_AnalysisTaskSurvivesFailures == server.pc # "dead"


\* C24: between the start and the end of a cycle's strategy computations no
\* update_graph and no prune takes effect (the second strategy reads the
\* graph the first one read); and the cycle does not keep the graph manager
\* locked: while its alerts are sent, the prune task can run, and an update
\* or prune that changes the graph then changes nothing of the cycle.
C24_CycleReadsOneGraph ==
    [][/\ server.pc = "clusters" => (graph' = graph /\ server.view = <<graph>>)
       /\ (IsGraphManager(graph) /\ server.pc = "emitting") => ENABLED LP_Prune
       /\ (server.pc = "emitting" /\ graph' # graph)
             => server'.pending = server.pending /\ ga' = ga]_vars

\* while the cycle was sending its alerts, an update changed the graph that
\* the cycle's strategies had read
C24_Witness ==
    /\ server.pc = "emitting"
    /\ server.view # <<graph>>
    /\ Len(server.sent) > 0


\* C28: a cycle that finds the graph below the analyzer's floor (5 nodes for
\* GraphAnalyzer, 3 for SimpleGraphAnalyzer) runs no strategy and sends no
\* alert, leaves the analyzer's histories as they were, and ends in the
\* sleep before the next cycle.
C28_SmallGraphCycleSkipped ==
    [][(/\ server'.cycles = server.cycles + 1
        /\ Cardinality(DOMAIN graph'.nodes)
              < IF IsGraphManager(graph) THEN 5 ELSE 3)
         => /\ ga' = ga
            /\ server'.sent = server.sent
            /\ server'.pending = <<>>
            /\ server'.pc = "sleeping"]_vars

\* the first cycle ran and left a history, the second found the graph too
\* small and was skipped
C28_Witness ==
    /\ server.skipped = 2
    /\ IF IsGraphManager(graph) THEN ga.centrality_history # EmptyTable
       ELSE ga.graph_data.links # {}

====
